---- MODULE Spec2Model ----
(***************************************************************************)
(* Model of prof-activity-tracker: the daily snapshot-diff run            *)
(* (daily_activity.py), the identifier normalizer it uses, and the        *)
(* monthly per-country aggregation (monthly_report.py).                   *)
(*                                                                         *)
(* Strings are tuples of one-character strings, so that str.strip and     *)
(* str.replace are computed character by character as Python does.        *)
(* ISO dates are day numbers: lexicographic order on ISO dates is the     *)
(* order of the day numbers; the empty date "" is NoDate, below every     *)
(* day, and the sentinel "1900-01-01" is Epoch, at or below every day a   *)
(* work can carry.                                                         *)
(***************************************************************************)
EXTENDS Integers, Sequences, FiniteSets, TLC

(* ------------------------------ bounds -------------------------------- *)
MaxPieces == 3      \* pieces concatenated into a raw identifier
MaxRoster == 2      \* rows of PROF_MASTER read by one run
MaxDay == 2         \* days, and so daily runs, of one behaviour
MaxCites == 1       \* largest cited_by_count the source reports
MaxMonthly == 2     \* rows of PROF_MASTER read by the monthly report
MaxWorks == 1       \* works the source can come to hold

(* ------------------------------ strings ------------------------------- *)
Whitespace == {" ", "\t", "\n"}

PREFIX_HTTPS == <<"h","t","t","p","s",":","/","/","o","p","e","n","a","l","e","x",".","o","r","g","/">>
PREFIX_HTTP == <<"h","t","t","p",":","/","/","o","p","e","n","a","l","e","x",".","o","r","g","/">>
PREFIX_API_HTTPS == <<"h","t","t","p","s",":","/","/","a","p","i",".","o","p","e","n","a","l","e","x",".","o","r","g","/","a","u","t","h","o","r","s","/">>
PREFIX_API_HTTP == <<"h","t","t","p",":","/","/","a","p","i",".","o","p","e","n","a","l","e","x",".","o","r","g","/","a","u","t","h","o","r","s","/">>

\* str.strip(): drop leading and trailing whitespace characters.
RECURSIVE lstrip(_)
lstrip(s) ==
    IF s # <<>> /\ Head(s) \in Whitespace THEN lstrip(Tail(s)) ELSE s

RECURSIVE rstrip(_)
rstrip(s) ==
    IF s # <<>> /\ s[Len(s)] \in Whitespace
    THEN rstrip(SubSeq(s, 1, Len(s) - 1)) ELSE s

strip(s) == rstrip(lstrip(s))

\* str.replace(old, ""): the leftmost occurrence of old is removed and the
\* search goes on after it, so the occurrences removed do not overlap and
\* the result is not rescanned.
RECURSIVE replace(_, _)
replace(s, old) ==
    LET n == Len(old)
        starts == { k \in 1..(Len(s) - n + 1) : SubSeq(s, k, k + n - 1) = old }
    IN IF starts = {} THEN s
       ELSE LET k == CHOOSE a \in starts : \A b \in starts : a <= b
            IN SubSeq(s, 1, k - 1) \o replace(SubSeq(s, k + n, Len(s)), old)

\* str.startswith("A")
startswithA(s) == s # <<>> /\ Head(s) = "A"

normalize_openalex_author_id(openalex_id_raw) ==
    IF openalex_id_raw = <<>> THEN <<>>
    ELSE replace(replace(replace(replace(strip(openalex_id_raw),
             PREFIX_HTTPS), PREFIX_HTTP), PREFIX_API_HTTPS), PREFIX_API_HTTP)

(* ------------------------- daily_activity.py -------------------------- *)
Max(a, b) == IF a >= b THEN a ELSE b

Epoch == 0          \* "1900-01-01", the default last_check
NoDate == 0         \* "", the default last_pub_date
Blank == -1         \* "", the total_works cell written when totals are unknown
None == [cited_by_count |-> -1, works_count |-> -1]

A1 == <<"A","1">>
W2 == <<"W","2">>

\* The works the source can come to hold: work k of author A1, published on
\* day k (the last ones on MaxDay).
Works == [k \in 1..MaxWorks |->
            [id |-> k, author |-> A1, date |-> IF k <= MaxDay THEN k ELSE MaxDay]]

\* Rows PROF_MASTER can hold: prof_id and the raw openalex_id cell.
Entities ==
    << [prof_id |-> "p1", openalex_id |-> A1],
       [prof_id |-> "p1", openalex_id |-> <<" ">> \o PREFIX_HTTPS \o A1],
       [prof_id |-> "p1", openalex_id |-> <<" ">>],
       [prof_id |-> "p1", openalex_id |-> PREFIX_HTTPS],
       [prof_id |-> "p2", openalex_id |-> W2],
       [prof_id |-> "", openalex_id |-> A1] >>

\* The rosters a run can read: at most MaxRoster of these rows, one row per
\* prof_id, in the order of the sheet.
RECURSIVE Pick(_, _)
Pick(S, k) ==
    IF k > Len(Entities) THEN <<>>
    ELSE IF k \in S THEN <<Entities[k]>> \o Pick(S, k + 1) ELSE Pick(S, k + 1)

Rosters ==
    { Pick(S, 1) : S \in { T \in SUBSET (1..Len(Entities)) :
        /\ Cardinality(T) <= MaxRoster
        /\ \A a, b \in T : a # b => Entities[a].prof_id # Entities[b].prof_id } }

\* Responses of GET /authors/{id}: None for a failed call, else the totals.
AuthorResponses(src) ==
    {None} \cup { [cited_by_count |-> c, works_count |-> Cardinality(src)] :
                    c \in 0..MaxCites }

\* Worksheet.clear(): no header, no rows.
clear_keep(ws) == ws
clear(ws) == [hdr |-> FALSE, rows |-> <<>>]

\* Worksheet.get_all_records(): the rows under the header row.
get_all_records(ws) == IF ws.hdr THEN ws.rows ELSE <<>>

\* {r["prof_id"]: r for r in records}: the last row of a prof_id wins.
RowDict(rows) ==
    [p \in { rows[k].prof_id : k \in 1..Len(rows) } |->
        rows[CHOOSE k \in 1..Len(rows) :
                /\ rows[k].prof_id = p
                /\ \A j \in 1..Len(rows) : rows[j].prof_id = p => j <= k]]

\* snapshot.get(pid, {}).get("last_check", "1900-01-01")
last_check_of(snap, p) ==
    IF p \in DOMAIN snap THEN snap[p].last_check ELSE Epoch

\* snapshot.get(pid, {}).get("last_pub_date", "") or ""
last_pub_date_of(snap, p) ==
    IF p \in DOMAIN snap THEN snap[p].last_pub_date ELSE NoDate

\* int(snapshot.get(pid, {}).get("total_citations", 0) or 0)
prev_cites_zero(snap, p) == 0
prev_cites_of(snap, p) ==
    IF p \in DOMAIN snap THEN snap[p].total_citations ELSE 0

\* get_new_works: [] for an id not starting with "A" or a failed call, else
\* the works of the author published on or after since_date.
get_new_works(author_id, since_date, ok, src) ==
    IF author_id = <<>> \/ ~startswithA(author_id) THEN <<>>
    ELSE IF ~ok THEN <<>>
    ELSE SelectSeq(Works, LAMBDA w : /\ w.id \in src
                                     /\ w.author = author_id
                                     /\ w.date >= since_date)

\* get_author: None for an id not starting with "A", else the response.
get_author(author_id, resp) ==
    IF author_id = <<>> \/ ~startswithA(author_id) THEN None ELSE resp

\* The loop over works: last_pub_date = max(last_pub_date, pub_date).
RECURSIVE fold_pub_date(_, _)
fold_pub_date(d, ws) ==
    IF ws = <<>> THEN d ELSE fold_pub_date(Max(d, Head(ws).date), Tail(ws))

\* cite_delta = max(0, total_cites - prev_cites)
cite_delta_signed(total_cites, prev_cites) == total_cites - prev_cites
cite_delta_of(total_cites, prev_cites) == Max(0, total_cites - prev_cites)

\* if new_pubs > 0 or cite_delta > 0
emit_pubs_only(n, cd) == n > 0
emit(n, cd) == n > 0 \/ cd > 0

\* titles and links of the works returned (a work is named by its id; the
\* model's works all carry a title and a link).
titles_of(ws) == [k \in 1..Len(ws) |-> ws[k].id]
links_of(ws) == [k \in 1..Len(ws) |-> ws[k].id]

(* ------------------------- monthly_report.py -------------------------- *)
COL_COUNTRY == <<"C","o","u","n","t","r","y">>
Singapore == <<"S","i","n","g","a","p","o","r","e">>
Malaysia == <<"M","a","l","a","y","s","i","a">>
Japan == <<"J","a","p","a","n">>
HIGHLY_ACTIVE == <<"H","I","G","H","L","Y"," ","A","C","T","I","V","E">>
ACTIVE == <<"A","C","T","I","V","E">>
STABLE == <<"S","T","A","B","L","E">>
DORMANT == <<"D","O","R","M","A","N","T">>
STAGNANT == <<"S","T","A","G","N","A","N","T">>
UNKNOWN == <<"U","N","K","N","O","W","N">>

VALID_COUNTRIES == {Singapore, Malaysia}
VALID_STATUSES == {HIGHLY_ACTIVE, ACTIVE, STABLE, DORMANT, STAGNANT}

\* normalize(s): (s or "").strip()
normalize(s) == strip(s)

\* Lines 61-70: one row of the grouping loop; by_country keeps the
\* countries in the order they were first met, as a dict does.
add_row(bc, p) ==
    LET country == normalize(p.Country)
    IN IF country = <<>> \/ country = COL_COUNTRY THEN bc
       ELSE IF country \notin VALID_COUNTRIES THEN bc
       ELSE IF \E k \in 1..Len(bc) : bc[k].country = country
            THEN [k \in 1..Len(bc) |->
                    IF bc[k].country = country
                    THEN [bc[k] EXCEPT !.rows = Append(@, p)] ELSE bc[k]]
            ELSE Append(bc, [country |-> country, rows |-> <<p>>])

RECURSIVE group_rows(_, _)
group_rows(bc, ps) ==
    IF ps = <<>> THEN bc ELSE group_rows(add_row(bc, Head(ps)), Tail(ps))

\* Lines 80-90: status_counts.get(st, 0) after the counting loop.
status_count_untrimmed(rows, st) ==
    Cardinality({ k \in 1..Len(rows) :
        rows[k].activity_status \in VALID_STATUSES /\ rows[k].activity_status = st })
status_count(rows, st) ==
    Cardinality({ k \in 1..Len(rows) :
        /\ normalize(rows[k].activity_status) \in VALID_STATUSES
        /\ normalize(rows[k].activity_status) = st })

\* Rows PROF_MASTER can hold for the monthly report.
MonthlyRows ==
    { [Country |-> c, activity_status |-> st] :
        c \in {Singapore, <<" ">> \o Malaysia, Japan, COL_COUNTRY, <<>>},
        st \in {HIGHLY_ACTIVE, ACTIVE, <<" ">> \o ACTIVE \o <<" ">>, STABLE,
                DORMANT, STAGNANT, UNKNOWN} }

(* ----------------------------- variables ------------------------------ *)
VARIABLES
    raw, once, twice, npc,         \* normalizer: input, f(x), f(f(x)), position
    today, held,                   \* date.today() of the last run, works at the source
    snapshot_ws, log_ws,           \* DAILY_SNAPSHOT and DAILY_ACTIVITY_LOG sheets
    pc, profs, snapshot,           \* position in main, roster read, snapshot read
    log_rows, new_snapshot, i,     \* lists built by the loop, rows consumed
    pid, works, author,            \* locals of the last loop iteration
    new_pubs, cite_delta, last_pub_date,
    returned,                      \* (prof_id, work) pairs get_new_works returned
    mpc, mprofs, by_country,       \* monthly main: position, roster, groups
    snapshot_rows, snap_ws         \* rows built, MONTHLY_SNAPSHOT sheet

nvars == <<raw, once, twice, npc>>
envvars == <<today, held>>
sheets == <<snapshot_ws, log_ws>>
locals == <<pid, works, author, new_pubs, cite_delta, last_pub_date>>
dvars == <<today, held, snapshot_ws, log_ws, pc, profs, snapshot,
           log_rows, new_snapshot, i, pid, works, author, new_pubs,
           cite_delta, last_pub_date, returned>>
mvars == <<mpc, mprofs, by_country, snapshot_rows, snap_ws>>
vars == <<nvars, dvars, mvars>>

NormIdle == raw = <<>> /\ once = <<>> /\ twice = <<>> /\ npc = "off"

DailyIdle ==
    /\ today = 0 /\ held = {}
    /\ snapshot_ws = [hdr |-> TRUE, rows |-> <<>>]
    /\ log_ws = <<>>
    /\ pc = "idle" /\ profs = <<>> /\ snapshot = <<>>
    /\ log_rows = <<>> /\ new_snapshot = <<>> /\ i = 0
    /\ pid = "" /\ works = <<>> /\ author = None
    /\ new_pubs = 0 /\ cite_delta = 0 /\ last_pub_date = NoDate
    /\ returned = {}

MonthlyIdle ==
    /\ mpc = "off" /\ mprofs = <<>> /\ by_country = <<>>
    /\ snapshot_rows = <<>> /\ snap_ws = <<>>

(* ------------------------ daily run specification --------------------- *)
Init == NormIdle /\ DailyIdle /\ MonthlyIdle

\* Lines 65-81: the run of the next day starts (the job is scheduled once
\* a day); the source may have indexed more works by then; the roster and
\* the snapshot sheet are read.
StartRun ==
    /\ pc \in {"idle", "done", "aborted"}
    /\ today < MaxDay
    /\ today' = today + 1
    /\ \E more \in SUBSET { k \in 1..MaxWorks : Works[k].date <= today' } :
          held' = held \cup more
    /\ \E r \in Rosters : profs' = r
    /\ snapshot' = RowDict(get_all_records(snapshot_ws))
    /\ log_rows' = <<>> /\ new_snapshot' = <<>> /\ i' = 0
    /\ pid' = "" /\ works' = <<>> /\ author' = None
    /\ new_pubs' = 0 /\ cite_delta' = 0 /\ last_pub_date' = NoDate
    /\ pc' = IF profs' = <<>> THEN "log" ELSE "loop"
    /\ UNCHANGED <<sheets, returned>>

\* Lines 83-130: one iteration of the loop over the roster.
ProcessEntity ==
    /\ pc = "loop"
    /\ i < Len(profs)
    /\ i' = i + 1
    /\ pc' = IF i' = Len(profs) THEN "log" ELSE "loop"
    /\ LET p == profs[i + 1]
           openalex_id_raw == strip(p.openalex_id)
           author_id == normalize_openalex_author_id(openalex_id_raw)
       IN /\ pid' = p.prof_id
          /\ IF p.prof_id = "" \/ openalex_id_raw = <<>> \/ author_id = <<>>
             THEN UNCHANGED <<works, author, new_pubs, cite_delta,
                              last_pub_date, log_rows, new_snapshot, returned>>
             ELSE \E ok \in BOOLEAN, resp \in AuthorResponses(held) :
                  LET ws == get_new_works(author_id,
                                last_check_of(snapshot, p.prof_id), ok, held)
                      lpd == fold_pub_date(
                                last_pub_date_of(snapshot, p.prof_id), ws)
                      au == get_author(author_id, resp)
                      prev_cites == prev_cites_of(snapshot, p.prof_id)
                      cd == cite_delta_of(au.cited_by_count, prev_cites)
                  IN /\ works' = ws
                     /\ new_pubs' = Len(ws)
                     /\ last_pub_date' = lpd
                     /\ author' = au
                     /\ returned' = returned \cup
                            { <<p.prof_id, ws[k].id>> : k \in 1..Len(ws) }
                     /\ IF au = None
                        THEN /\ new_snapshot' = Append(new_snapshot,
                                    [prof_id |-> p.prof_id, last_check |-> today,
                                     total_works |-> Blank,
                                     total_citations |-> prev_cites,
                                     last_pub_date |-> lpd])
                             /\ UNCHANGED <<cite_delta, log_rows>>
                        ELSE /\ cite_delta' = cd
                             /\ log_rows' =
                                  IF emit(Len(ws), cd)
                                  THEN Append(log_rows,
                                         [date |-> today, prof_id |-> p.prof_id,
                                          new_pubs |-> Len(ws),
                                          titles |-> titles_of(ws),
                                          links |-> links_of(ws),
                                          cite_delta |-> cd,
                                          source |-> "OpenAlex"])
                                  ELSE log_rows
                             /\ new_snapshot' = Append(new_snapshot,
                                    [prof_id |-> p.prof_id, last_check |-> today,
                                     total_works |-> au.works_count,
                                     total_citations |-> au.cited_by_count,
                                     last_pub_date |-> lpd])
    /\ UNCHANGED <<envvars, sheets, profs, snapshot>>

\* Lines 132-133: log_ws.append_rows(log_rows) when there are any.
AppendLog ==
    /\ pc = "log"
    /\ log_ws' = log_ws \o log_rows
    /\ pc' = "clear"
    /\ UNCHANGED <<envvars, snapshot_ws, profs, snapshot, log_rows,
                   new_snapshot, i, locals, returned>>

\* Line 136: snapshot_ws.clear()
Clear ==
    /\ pc = "clear"
    /\ snapshot_ws' = clear(snapshot_ws)
    /\ pc' = "header"
    /\ UNCHANGED <<envvars, log_ws, profs, snapshot, log_rows,
                   new_snapshot, i, locals, returned>>

\* Line 137: snapshot_ws.append_row(header)
AppendHeader ==
    /\ pc = "header"
    /\ snapshot_ws' = [snapshot_ws EXCEPT !.hdr = TRUE]
    /\ pc' = "rows"
    /\ UNCHANGED <<envvars, log_ws, profs, snapshot, log_rows,
                   new_snapshot, i, locals, returned>>

\* Lines 138-139: snapshot_ws.append_rows(new_snapshot) when there are any.
AppendRows ==
    /\ pc = "rows"
    /\ snapshot_ws' = [snapshot_ws EXCEPT !.rows = @ \o new_snapshot]
    /\ pc' = "done"
    /\ UNCHANGED <<envvars, log_ws, profs, snapshot, log_rows,
                   new_snapshot, i, locals, returned>>

\* An exception raised by a statement of main (a sheet call that fails, a
\* cell int() cannot parse) ends the run where it is.
Abort ==
    /\ pc \in {"loop", "log", "clear", "header", "rows"}
    /\ pc' = "aborted"
    /\ UNCHANGED <<envvars, sheets, profs, snapshot, log_rows,
                   new_snapshot, i, locals, returned>>

Next ==
    \/ (StartRun /\ UNCHANGED <<nvars, mvars>>)
    \/ (ProcessEntity /\ UNCHANGED <<nvars, mvars>>)
    \/ (AppendLog /\ UNCHANGED <<nvars, mvars>>)
    \/ (Clear /\ UNCHANGED <<nvars, mvars>>)
    \/ (AppendHeader /\ UNCHANGED <<nvars, mvars>>)
    \/ (AppendRows /\ UNCHANGED <<nvars, mvars>>)
    \/ (Abort /\ UNCHANGED <<nvars, mvars>>)

Spec == Init /\ [][Next]_vars

(* ------------------------ claims on the daily run --------------------- *)
Last(q) == q[Len(q)]

\* prof_ids of the data rows of the DAILY_SNAPSHOT sheet.
StoreIds == { snapshot_ws.rows[k].prof_id : k \in 1..Len(snapshot_ws.rows) }

\* The citation total the sheet holds for p when the run reads it (0 when
\* it holds no row for p); the sheet is untouched while the loop runs.
StoredCites(p) ==
    IF p \in StoreIds
    THEN (CHOOSE r \in { snapshot_ws.rows[k] : k \in 1..Len(snapshot_ws.rows) } :
            r.prof_id = p).total_citations
    ELSE 0

StoredLastPub(p) ==
    IF p \in StoreIds
    THEN (CHOOSE r \in { snapshot_ws.rows[k] : k \in 1..Len(snapshot_ws.rows) } :
            r.prof_id = p).last_pub_date
    ELSE NoDate

\* The loop has just processed (not skipped) a roster row.
Processed == pc = "loop" /\ new_snapshot' # new_snapshot

\* The run has logged work w for entity p.
Logged(p, w) ==
    \E k \in 1..Len(log_ws) :
        /\ log_ws[k].prof_id = p
        /\ \E j \in 1..Len(log_ws[k].titles) : log_ws[k].titles[j] = w

\* C1: if the run aborts at any point, the Snapshot Store holds either
\* exactly its pre-run rows or exactly the complete new row set, never an
\* empty or partially written set.
C1_ReplaceAllOrNothing ==
    pc = "aborted" =>
        \/ RowDict(snapshot_ws.rows) = snapshot
        \/ (i = Len(profs) /\ snapshot_ws.rows = new_snapshot)

\* C2: for every entity processed in a daily run, a DeltaRecord is produced
\* if and only if new_publication_count > 0 or citation_delta > 0.
C2_EmitIff ==
    [][Processed =>
        ((log_rows' # log_rows) <=>
            (new_pubs' > 0 \/ (author' # None /\ cite_delta' > 0)))]_vars

\* C2 as amended: for every processed entity whose totals query succeeded,
\* a DeltaRecord for it is produced if and only if the works query returned
\* at least one work or the reported citation total exceeds the stored one;
\* an entity whose totals query failed produces no record; and the log
\* append of the run appends exactly the records produced.
C2_EmitIffTotalsKnown ==
    [][/\ (Processed /\ author' # None) =>
            IF Len(works') > 0 \/ author'.cited_by_count > StoredCites(pid')
            THEN /\ Len(log_rows') = Len(log_rows) + 1
                 /\ SubSeq(log_rows', 1, Len(log_rows)) = log_rows
                 /\ Last(log_rows').prof_id = pid'
                 /\ Last(log_rows').new_pubs = Len(works')
            ELSE log_rows' = log_rows
       /\ (Processed /\ author' = None) => log_rows' = log_rows
       /\ (pc = "log" /\ pc' = "clear") => log_ws' = log_ws \o log_rows]_vars

\* C2 witness: a record produced for an entity with no new work and a
\* citation total above the stored one.
C2_Witness ==
    /\ pc \in {"loop", "log"} /\ author # None
    /\ new_pubs = 0 /\ cite_delta > 0
    /\ log_rows # <<>> /\ Last(log_rows).prof_id = pid
    /\ Last(log_rows).new_pubs = 0

\* C3: every DeltaRecord has citation_delta >= 0, also when the source
\* reports a citation total below the stored one.
C3_CiteDeltaNonNegative ==
    /\ \A k \in 1..Len(log_ws) : log_ws[k].cite_delta >= 0
    /\ \A k \in 1..Len(log_rows) : log_rows[k].cite_delta >= 0

\* C3 witness: a record produced for an entity whose reported citation
\* total is below the stored one.
C3_Witness ==
    /\ pc \in {"loop", "log"} /\ author # None
    /\ pid \in DOMAIN snapshot
    /\ author.cited_by_count < snapshot[pid].total_citations
    /\ log_rows # <<>> /\ Last(log_rows).prof_id = pid
    /\ Last(log_rows).cite_delta = 0

\* C4: when the totals query of an entity fails, the run still produces a
\* row for it, with the citation total the sheet held for it (0 without a
\* row), the folded last publication date and the run date, and produces no
\* DeltaRecord for it; the rewrite stores the rows produced, so the stored
\* total survives any number of failing runs.
C4_TotalsFailureCarriesForward ==
    [][/\ (Processed /\ author' = None) =>
            /\ Len(new_snapshot') = Len(new_snapshot) + 1
            /\ Last(new_snapshot').prof_id = pid'
            /\ Last(new_snapshot').last_check = today
            /\ Last(new_snapshot').total_citations = StoredCites(pid')
            /\ Last(new_snapshot').last_pub_date >= StoredLastPub(pid')
            /\ \A k \in 1..Len(works') :
                  Last(new_snapshot').last_pub_date >= works'[k].date
            /\ \/ Last(new_snapshot').last_pub_date = StoredLastPub(pid')
               \/ \E k \in 1..Len(works') :
                     Last(new_snapshot').last_pub_date = works'[k].date
            /\ log_rows' = log_rows
       /\ (pc = "rows" /\ pc' = "done") =>
            /\ snapshot_ws'.rows = new_snapshot
            /\ \A k \in 1..Len(new_snapshot) :
                  new_snapshot[k].total_works = Blank =>
                     new_snapshot[k].total_citations =
                        prev_cites_of(snapshot, new_snapshot[k].prof_id)]_vars

\* C4 witness: a completed run whose totals query failed for an entity with
\* a stored citation total above 0, carried into the rewritten sheet.
C4_Witness ==
    /\ pc = "done"
    /\ \E k \in 1..Len(snapshot_ws.rows) :
          LET r == snapshot_ws.rows[k]
          IN /\ r.total_works = Blank
             /\ r.prof_id \in DOMAIN snapshot
             /\ snapshot[r.prof_id].total_citations > 0
             /\ r.total_citations = snapshot[r.prof_id].total_citations
             /\ r.last_check > snapshot[r.prof_id].last_check

\* C5: an entity with a blank identifier is skipped entirely: no DeltaRecord
\* for it, and the row the Snapshot Store held for it before the run is
\* present and unchanged after the run.
C5_BlankIdentifierUntouched ==
    pc = "done" =>
        \A k \in 1..Len(profs) :
            (profs[k].prof_id # "" /\ strip(profs[k].openalex_id) = <<>>) =>
                /\ \A j \in 1..Len(log_rows) :
                      log_rows[j].prof_id # profs[k].prof_id
                /\ profs[k].prof_id \in DOMAIN snapshot =>
                      \E j \in 1..Len(snapshot_ws.rows) :
                          snapshot_ws.rows[j] = snapshot[profs[k].prof_id]

\* C6: after a completed run the Snapshot Store holds exactly one row,
\* dated with the run date, for each roster entity with a non-empty entity
\* id and a non-empty normalized identifier, and no other row.
C6_StoreMatchesRoster ==
    pc = "done" =>
        /\ snapshot_ws.hdr
        /\ StoreIds =
             { profs[k].prof_id : k \in { j \in 1..Len(profs) :
                 /\ profs[j].prof_id # ""
                 /\ normalize_openalex_author_id(profs[j].openalex_id) # <<>> } }
        /\ Len(snapshot_ws.rows) = Cardinality(StoreIds)
        /\ \A k \in 1..Len(snapshot_ws.rows) :
              snapshot_ws.rows[k].last_check = today

\* C6 witness: a completed run that drops the row of an entity no longer in
\* the roster and rewrites the row of an entity whose queries failed and
\* for which no DeltaRecord was produced.
C6_Witness ==
    /\ pc = "done"
    /\ \E p \in DOMAIN snapshot : p \notin StoreIds
    /\ \E k \in 1..Len(snapshot_ws.rows) :
          /\ snapshot_ws.rows[k].total_works = Blank
          /\ snapshot_ws.rows[k].prof_id \in DOMAIN snapshot
    /\ log_rows = <<>>

\* C9: each work is counted as a new publication of an entity in at most
\* one run: a run whose works query starts from the last_check a previous
\* run stored for the entity produces no DeltaRecord listing a work that a
\* DeltaRecord of the entity in the log already lists.
C9_WorkCountedOnce ==
    pc = "log" =>
        \A k \in 1..Len(log_rows) :
            log_rows[k].prof_id \in DOMAIN snapshot =>
                \A x \in 1..Len(log_rows[k].titles) :
                    ~Logged(log_rows[k].prof_id, log_rows[k].titles[x])

\* C10: no work the works query returned for an entity is lost from the
\* log: when a run completes, each such work is in a DeltaRecord of the
\* entity or is still on or after the last_check date the store holds for
\* the entity, so that the next run's works query returns it again.
C10_NoReturnedWorkLost ==
    pc = "done" =>
        \A pw \in returned :
            \/ Logged(pw[1], pw[2])
            \/ \A k \in 1..Len(snapshot_ws.rows) :
                  snapshot_ws.rows[k].prof_id = pw[1] =>
                      snapshot_ws.rows[k].last_check <= Works[pw[2]].date

(* --------------------- monthly report specification ------------------- *)
InitMonthly ==
    /\ NormIdle /\ DailyIdle
    /\ mprofs \in UNION { [1..n -> MonthlyRows] : n \in 0..MaxMonthly }
    /\ mpc = "group"
    /\ by_country = <<>> /\ snapshot_rows = <<>> /\ snap_ws = <<>>

\* Lines 58-70: group the roster rows by country.
GroupRows ==
    /\ mpc = "group"
    /\ by_country' = group_rows(<<>>, mprofs)
    /\ mpc' = "aggregate"
    /\ UNCHANGED <<mprofs, snapshot_rows, snap_ws>>

\* Lines 76-142: one iteration of the loop over by_country.items().
AggregateCountry ==
    /\ mpc = "aggregate"
    /\ Len(snapshot_rows) < Len(by_country)
    /\ LET g == by_country[Len(snapshot_rows) + 1]
       IN snapshot_rows' = Append(snapshot_rows,
            [country |-> g.country,
             total |-> Len(g.rows),
             ha |-> status_count(g.rows, HIGHLY_ACTIVE),
             a |-> status_count(g.rows, ACTIVE),
             s |-> status_count(g.rows, STABLE),
             d |-> status_count(g.rows, DORMANT),
             stg |-> status_count(g.rows, STAGNANT)])
    /\ UNCHANGED <<mpc, mprofs, by_country, snap_ws>>

\* Lines 148-149: snap_ws.append_rows(snapshot_rows) when there are any.
WriteSnapshot ==
    /\ mpc = "aggregate"
    /\ Len(snapshot_rows) = Len(by_country)
    /\ snap_ws' = snap_ws \o snapshot_rows
    /\ mpc' = "done"
    /\ UNCHANGED <<mprofs, by_country, snapshot_rows>>

NextMonthly ==
    \/ (GroupRows /\ UNCHANGED <<nvars, dvars>>)
    \/ (AggregateCountry /\ UNCHANGED <<nvars, dvars>>)
    \/ (WriteSnapshot /\ UNCHANGED <<nvars, dvars>>)

SpecMonthly == InitMonthly /\ [][NextMonthly]_vars

\* Roster rows whose trimmed country is c.
InCountry(c) == { k \in 1..Len(mprofs) : strip(mprofs[k].Country) = c }

\* Roster rows whose trimmed country is c and whose trimmed status is st.
WithStatus(c, st) ==
    { k \in InCountry(c) : strip(mprofs[k].activity_status) = st }

\* C8: in every country row the monthly report writes, total is the number
\* of roster entities of that country, each of the five status counts is the
\* number of those entities whose trimmed status is that value, and an
\* entity with any other status is counted in total only.
C8_Aggregation ==
    \A k \in 1..Len(snap_ws) :
        LET r == snap_ws[k]
        IN /\ r.country \in VALID_COUNTRIES
           /\ r.total = Cardinality(InCountry(r.country))
           /\ r.ha = Cardinality(WithStatus(r.country, HIGHLY_ACTIVE))
           /\ r.a = Cardinality(WithStatus(r.country, ACTIVE))
           /\ r.s = Cardinality(WithStatus(r.country, STABLE))
           /\ r.d = Cardinality(WithStatus(r.country, DORMANT))
           /\ r.stg = Cardinality(WithStatus(r.country, STAGNANT))
           /\ r.ha + r.a + r.s + r.d + r.stg =
                r.total - Cardinality({ j \in InCountry(r.country) :
                    strip(mprofs[j].activity_status) \notin VALID_STATUSES })

\* C8 witness: a written group with a padded valid status and another
\* status, counted in total but in no bucket.
C8_Witness ==
    \E k \in 1..Len(snap_ws) :
        /\ snap_ws[k].total = 2
        /\ snap_ws[k].a = 1
        /\ snap_ws[k].ha + snap_ws[k].s + snap_ws[k].d + snap_ws[k].stg = 0
        /\ \E j \in InCountry(snap_ws[k].country) :
              mprofs[j].activity_status = <<" ">> \o ACTIVE \o <<" ">>
        /\ \E j \in InCountry(snap_ws[k].country) :
              mprofs[j].activity_status = UNKNOWN

(* --------------------- normalizer specification ----------------------- *)
TOKEN == <<"A","1">>
HalfA == <<"h","t","t","p","s",":","/","/","o","p","e","n">>
HalfB == <<"a","l","e","x",".","o","r","g","/">>

Pieces == {<<" ">>, TOKEN, PREFIX_HTTPS, PREFIX_HTTP, PREFIX_API_HTTPS,
           PREFIX_API_HTTP, HalfA, HalfB}

RECURSIVE Concat(_)
Concat(ps) == IF ps = <<>> THEN <<>> ELSE Head(ps) \o Concat(Tail(ps))

RawInputs ==
    { Concat(ps) : ps \in UNION { [1..n -> Pieces] : n \in 0..MaxPieces } }

InitNorm ==
    /\ raw \in RawInputs
    /\ once = <<>>
    /\ twice = <<>>
    /\ npc = "input"
    /\ DailyIdle /\ MonthlyIdle

NormalizeOnce ==
    /\ npc = "input"
    /\ once' = normalize_openalex_author_id(raw)
    /\ npc' = "once"
    /\ UNCHANGED <<raw, twice, dvars, mvars>>

NormalizeTwice ==
    /\ npc = "once"
    /\ twice' = normalize_openalex_author_id(once)
    /\ npc' = "twice"
    /\ UNCHANGED <<raw, once, dvars, mvars>>

NextNorm == NormalizeOnce \/ NormalizeTwice

SpecNorm == InitNorm /\ [][NextNorm]_vars

\* C7: the normalizer is idempotent for every input, the canonical-URL
\* form of a token and the bare token both normalize to the bare token,
\* and the empty string normalizes to the empty string.
C7_NormalizeIdempotent ==
    /\ npc = "twice" => twice = once
    /\ (npc # "input" /\ raw = PREFIX_HTTPS \o TOKEN) => once = TOKEN
    /\ (npc # "input" /\ raw = TOKEN) => once = TOKEN
    /\ (npc # "input" /\ raw = <<>>) => once = <<>>

====
